---- MODULE Spec2Model ----
(***************************************************************************)
(* TrialGuard admission-control engine (src/app.py): TrialUser,            *)
(* TenantConfig, ResourceMonitor and TrialGuardEngine.                     *)
(*                                                                         *)
(* Units.  The source computes with floats; the model uses exact integers: *)
(*   money (cost, value, estimated_cost, feature_value, cost_saved) in     *)
(*     cents, so 0.05 is 5 and max_cost_per_session 10.0 is 1000;          *)
(*   revenue_saved in thousandths, so value * 0.1 is the value in cents;   *)
(*   abuse_score and abuse_threshold in tenths, so 0.4 is 4 and 1.0 is 10; *)
(*   roi_score in thousandths (cents times tenths), so 5.0 is 5000;        *)
(*   time.time() in whole seconds; max_api_rate in requests per minute.    *)
(* One call of process_event reads the clock at one instant.               *)
(*                                                                         *)
(* Spec runs the engine: its initial states are the constructed engine and *)
(* the states that scripted bursts of calls, replayed through              *)
(* process_event, leave behind (loads of 50 and 100 are not reached in a   *)
(* few free steps); from there every call, form and clock change is taken, *)
(* MaxSteps deep.  SpecFn applies _calculate_scores and _make_decision to  *)
(* profiles, thresholds and loads drawn from bounded sets.  SpecThreads    *)
(* runs NumThreads calls of process_event in threads of one interpreter:   *)
(* each "+=" on st.session_state.stats is a load and a later store.        *)
(***************************************************************************)
EXTENDS Integers, Sequences, FiniteSets, TLC

VARIABLES
    users,       \* st.session_state.users: user_id -> TrialUser
    tenants,     \* st.session_state.tenants: name -> TenantConfig
    usage_log,   \* ResourceMonitor.usage_log: resource_id -> list of timestamps
    stats,       \* st.session_state.stats
    clock,       \* the value time.time() returns
    last,        \* the most recent engine call: its arguments and its outcome
    steps,       \* number of steps taken since the initial state (bounds the run)
    threads      \* the process_event calls in flight: thread -> position and locals

vars == <<users, tenants, usage_log, stats, clock, last, steps, threads>>

----------------------------------------------------------------------------
(* Bounds of the model *)

MaxSteps == 2
NumThreads == 2

----------------------------------------------------------------------------
(* Program constants *)

DECISION_ALLOW == "ALLOW"
DECISION_THROTTLE == "THROTTLE"
DECISION_BLOCK == "BLOCK"
DECISION_FLAG_SALES == "FLAG_SALES"

Decisions == {DECISION_ALLOW, DECISION_THROTTLE, DECISION_BLOCK, DECISION_FLAG_SALES}

None == "None"

SequenceCap == 10          \* len(feature_sequence) > 10 -> pop(0)
SessionGap == 300          \* time_since_last > 300
UsageWindow == 60          \* now - t < 60
HighLoad == 50             \* get_load(resource_id) > 50 doubles the cost
OverloadLoad == 100        \* get_load(last_resource) > 100 throttles
RepeatWindow == 5          \* feature_sequence[-5:]
MinDurationSecs == 6       \* max(.. / 60.0, 0.1) minutes
RateWeight == 4            \* raw_abuse_score += 0.4 (rate)
RepeatWeight == 3          \* raw_abuse_score += 0.3 (repetition)
CostWeight == 4            \* raw_abuse_score += 0.4 (cost)
ScoreOne == 10             \* 1.0 in tenths
BlockRoi == -5000          \* roi_score < -5.0
ThrottleRoi == 5000        \* roi_score > 5.0
SalesRoi == 10000          \* roi_score > 10.0
SalesAbuse == 2            \* abuse_score < 0.2
OtherCost == 5             \* cost 0.05 of an event that is not an API_CALL
OtherValue == 10           \* value 0.1 of an event that is not a CHECKOUT_ATTEMPT

\* random.uniform(0.1, 0.5) and random.uniform(0.5, 2.0): a free call draws the
\* upper end; the scripted calls below also draw the lower end
ApiCostDraws == {50}
CheckoutValueDraws == {200}

UserIds == {"u1", "u2"}
RegisteredTenants == {"Tenant_A", "Tenant_B"}
TenantIds == RegisteredTenants \cup {"Tenant_X"}
EventTypes == {"API_CALL", "CHECKOUT_ATTEMPT", "LOGIN"}
Resources == {"R1"}
UserTypes == {"NORMAL", "ABUSIVE"}
Times == {0, 60, 360}

\* the forms that render_configuration submits: the sliders at their lowest
\* values, and the threshold at its highest
Forms ==
    { [ new_rate |-> 10, new_abuse |-> 1, new_w_abuse |-> 5, new_w_cost |-> 3 ],
      [ new_rate |-> 50, new_abuse |-> 10, new_w_abuse |-> 5, new_w_cost |-> 3 ] }

----------------------------------------------------------------------------
(* TrialUser *)

TrialUser(tenant_id, user_id, user_type, now) ==
    [ tenant_id |-> tenant_id,
      user_id |-> user_id,
      user_type |-> user_type,
      created_at |-> now,
      events |-> <<>>,
      api_count |-> 0,
      feature_sequence |-> <<>>,
      last_active |-> now,
      session_durations |-> <<>>,
      estimated_cost |-> 0,
      feature_value |-> 0,
      abuse_score |-> 0,
      roi_score |-> 0,
      current_decision |-> DECISION_ALLOW,
      reasons |-> <<>> ]

\* (variant: pop() for pop(0), the newest entry is evicted)
push_feature_pop_newest(feature_sequence, event_type) ==
    LET appended == Append(feature_sequence, event_type)
    IN IF Len(appended) > SequenceCap THEN SubSeq(appended, 1, SequenceCap) ELSE appended

\* feature_sequence.append(event_type); if len > 10: pop(0)
push_feature(feature_sequence, event_type) ==
    LET appended == Append(feature_sequence, event_type)
    IN IF Len(appended) > SequenceCap THEN Tail(appended) ELSE appended

\* (variant: the first gap above 300 seconds is recorded as the session's length)
update_sessions_gap_recorded(session_durations, time_since_last) ==
    IF time_since_last > SessionGap
    THEN Append(session_durations, time_since_last)
    ELSE IF session_durations # <<>>
         THEN [session_durations EXCEPT ![Len(session_durations)] = @ + time_since_last]
         ELSE session_durations

\* (variant: a gap of exactly 300 seconds starts a session too)
update_sessions_at_gap(session_durations, time_since_last) ==
    IF time_since_last >= SessionGap
    THEN Append(session_durations, 0)
    ELSE IF session_durations # <<>>
         THEN [session_durations EXCEPT ![Len(session_durations)] = @ + time_since_last]
         ELSE session_durations

\* the session_durations update of add_event
update_sessions(session_durations, time_since_last) ==
    IF time_since_last > SessionGap
    THEN Append(session_durations, 0)
    ELSE IF session_durations # <<>>
         THEN [session_durations EXCEPT ![Len(session_durations)] = @ + time_since_last]
         ELSE session_durations

add_event(user, event_type, resource_id, cost, value, now) ==
    [ user EXCEPT
        !.events = Append(@, [timestamp |-> now, type |-> event_type, resource |-> resource_id]),
        !.api_count = @ + 1,
        !.feature_sequence = push_feature(@, event_type),
        !.session_durations = update_sessions(@, now - user.last_active),
        !.last_active = now,
        !.estimated_cost = @ + cost,
        !.feature_value = @ + value ]

----------------------------------------------------------------------------
(* TenantConfig *)

TenantConfig(name) ==
    [ name |-> name,
      max_api_rate |-> 50,
      max_cost_per_session |-> 1000,
      abuse_threshold |-> 7,
      roi_min_threshold |-> 0,
      weight_abuse |-> 5,
      weight_cost |-> 3,
      weight_value |-> 2 ]

----------------------------------------------------------------------------
(* ResourceMonitor *)

\* (variant: the cleanup of old logs is left out)
log_usage_no_cleanup(log, resource_id, now) ==
    [ log EXCEPT ![resource_id] = Append(@, now) ]

\* (variant: the cleanup runs but the new timestamp is not appended)
log_usage_not_appended(log, resource_id, now) ==
    [ log EXCEPT ![resource_id] = SelectSeq(@, LAMBDA t : now - t < UsageWindow) ]

log_usage(log, resource_id, now) ==
    [ log EXCEPT ![resource_id] =
        SelectSeq(Append(@, now), LAMBDA t : now - t < UsageWindow) ]

get_load(log, resource_id) == Len(log[resource_id])

----------------------------------------------------------------------------
(* TrialGuardEngine._calculate_scores *)

Max(a, b) == IF a >= b THEN a ELSE b
Min(a, b) == IF a <= b THEN a ELSE b

\* api_rate > tenant.max_api_rate, with api_rate = api_count / max(secs / 60.0, 0.1)
rate_exceeded(user, tenant, now) ==
    user.api_count * 60 > tenant.max_api_rate * Max(now - user.created_at, MinDurationSecs)

\* (variant: len(feature_sequence) > 5, off by one)
repetitive_over_five(feature_sequence) ==
    /\ Len(feature_sequence) > RepeatWindow
    /\ Cardinality({ feature_sequence[i] :
                       i \in (Len(feature_sequence) - RepeatWindow + 1)..Len(feature_sequence) }) = 1

\* len(feature_sequence) >= 5 and len(set(feature_sequence[-5:])) == 1
repetitive(feature_sequence) ==
    /\ Len(feature_sequence) >= RepeatWindow
    /\ Cardinality({ feature_sequence[i] :
                       i \in (Len(feature_sequence) - RepeatWindow + 1)..Len(feature_sequence) }) = 1

\* (variant: raw_abuse_score starts from the stored score, not from 0.0)
raw_abuse_score_accumulated(user, tenant, now) ==
    user.abuse_score
    + (IF rate_exceeded(user, tenant, now) THEN RateWeight ELSE 0)
    + (IF repetitive(user.feature_sequence) THEN RepeatWeight ELSE 0)
    + (IF user.estimated_cost > tenant.max_cost_per_session THEN CostWeight ELSE 0)

raw_abuse_score(user, tenant, now) ==
    (IF rate_exceeded(user, tenant, now) THEN RateWeight ELSE 0)
    + (IF repetitive(user.feature_sequence) THEN RepeatWeight ELSE 0)
    + (IF user.estimated_cost > tenant.max_cost_per_session THEN CostWeight ELSE 0)

\* (variant: the min(.., 1.0) is left out)
clamp_score_unclamped(raw) == raw

\* min(raw_abuse_score, 1.0)
clamp_score(raw) == Min(raw, ScoreOne)

\* (variant: the net value is not weighted by 1.0 - abuse_score)
roi_of_unweighted(user, abuse_score) ==
    (user.feature_value - user.estimated_cost) * ScoreOne

roi_of(user, abuse_score) ==
    (user.feature_value - user.estimated_cost) * (ScoreOne - abuse_score)

\* (variant: the stored score is kept when the new one is lower)
calculate_scores_never_lower(user, tenant, now) ==
    LET abuse == Max(user.abuse_score, clamp_score(raw_abuse_score(user, tenant, now)))
    IN [ user EXCEPT !.abuse_score = abuse, !.roi_score = roi_of(user, abuse) ]

calculate_scores(user, tenant, now) ==
    LET abuse == clamp_score(raw_abuse_score(user, tenant, now))
    IN [ user EXCEPT !.abuse_score = abuse, !.roi_score = roi_of(user, abuse) ]

----------------------------------------------------------------------------
(* TrialGuardEngine._make_decision *)

\* a reason is <<text>> or <<format, argument>>
abuse_gate(user) ==
    IF user.roi_score < BlockRoi
    THEN [ decision |-> DECISION_BLOCK,
           reasons |-> << <<"Critical Abuse Score ({:.2f})", user.abuse_score>>,
                          <<"Negative ROI ({:.2f})", user.roi_score>> >> ]
    ELSE IF user.roi_score > ThrottleRoi
         THEN [ decision |-> DECISION_THROTTLE,
                reasons |-> << <<"High Volume but High Value">> >> ]
         ELSE [ decision |-> DECISION_BLOCK,
                reasons |-> << <<"Abuse Threshold Exceeded">> >> ]

\* if user.events: last_resource = user.events[-1]['resource']; load > 100
resource_drained(user, log) ==
    /\ user.events # <<>>
    /\ user.events[Len(user.events)].resource # None
    /\ get_load(log, user.events[Len(user.events)].resource) > OverloadLoad

\* (variant: the abuse comparison is flipped)
sales_opportunity_flipped(user) ==
    user.roi_score > SalesRoi /\ user.abuse_score > SalesAbuse

\* user.roi_score > 10.0 and user.abuse_score < 0.2
sales_opportunity(user) ==
    user.roi_score > SalesRoi /\ user.abuse_score < SalesAbuse

overloaded_reasons(user) ==
    << <<"Resource {} Overloaded", user.events[Len(user.events)].resource>> >>

\* (variant: the sales opportunity is checked first)
make_decision_sales_first(user, tenant, log) ==
    IF sales_opportunity(user)
    THEN [ decision |-> DECISION_FLAG_SALES, reasons |-> << <<"High ROI User">> >> ]
    ELSE IF user.abuse_score >= tenant.abuse_threshold
         THEN abuse_gate(user)
         ELSE IF resource_drained(user, log)
              THEN [ decision |-> DECISION_THROTTLE, reasons |-> overloaded_reasons(user) ]
              ELSE [ decision |-> DECISION_ALLOW, reasons |-> << <<"Normal Behavior">> >> ]

\* (variant: the sales opportunity is checked before the resource drain)
make_decision_sales_before_drain(user, tenant, log) ==
    IF user.abuse_score >= tenant.abuse_threshold
    THEN abuse_gate(user)
    ELSE IF sales_opportunity(user)
         THEN [ decision |-> DECISION_FLAG_SALES, reasons |-> << <<"High ROI User">> >> ]
         ELSE IF resource_drained(user, log)
              THEN [ decision |-> DECISION_THROTTLE, reasons |-> overloaded_reasons(user) ]
              ELSE [ decision |-> DECISION_ALLOW, reasons |-> << <<"Normal Behavior">> >> ]

make_decision(user, tenant, log) ==
    IF user.abuse_score >= tenant.abuse_threshold
    THEN abuse_gate(user)
    ELSE IF resource_drained(user, log)
         THEN [ decision |-> DECISION_THROTTLE, reasons |-> overloaded_reasons(user) ]
         ELSE IF sales_opportunity(user)
              THEN [ decision |-> DECISION_FLAG_SALES,
                     reasons |-> << <<"High ROI User">> >> ]
              ELSE [ decision |-> DECISION_ALLOW,
                     reasons |-> << <<"Normal Behavior">> >> ]

----------------------------------------------------------------------------
(* TrialGuardEngine.process_event *)

\* (variant: the hint of every call is stored on the profile)
get_or_create_retyped(us, tenant_id, user_id, user_type_simulation, now) ==
    IF user_id \in DOMAIN us
    THEN [ us EXCEPT ![user_id].user_type = user_type_simulation ]
    ELSE us @@ (user_id :> TrialUser(tenant_id, user_id, user_type_simulation, now))

\* 1. Get or Create User (before the tenant is looked up)
get_or_create(us, tenant_id, user_id, user_type_simulation, now) ==
    IF user_id \in DOMAIN us
    THEN us
    ELSE us @@ (user_id :> TrialUser(tenant_id, user_id, user_type_simulation, now))

\* the cost of the event, after the resource has been logged
event_cost(base_cost, resource_id, log) ==
    IF resource_id # None /\ get_load(log, resource_id) > HighLoad
    THEN base_cost * 2
    ELSE base_cost

\* (variant: a THROTTLE is counted as blocked too)
update_stats_throttle_blocked(st, decision, cost, value) ==
    LET counted == [ st EXCEPT !.total_events = @ + 1 ]
    IN IF decision \in {DECISION_BLOCK, DECISION_THROTTLE}
       THEN [ counted EXCEPT !.blocked_events = @ + 1, !.cost_saved = @ + cost ]
       ELSE IF decision = DECISION_FLAG_SALES
            THEN [ counted EXCEPT !.revenue_saved = @ + value ]
            ELSE counted

\* 5. Update Global Stats
update_stats(st, decision, cost, value) ==
    LET counted == [ st EXCEPT !.total_events = @ + 1 ]
    IN IF decision = DECISION_BLOCK
       THEN [ counted EXCEPT !.blocked_events = @ + 1, !.cost_saved = @ + cost ]
       ELSE IF decision = DECISION_FLAG_SALES
            THEN [ counted EXCEPT !.revenue_saved = @ + value ]
            ELSE counted

\* the state a call leaves behind and its result (a decision, or the KeyError
\* that self.tenants[tenant_id] raises)
process_event(us, tn, log, st, now, c) ==
    LET us1 == get_or_create(us, c.tenant_id, c.user_id, c.user_type, now)
    IN IF c.tenant_id \notin DOMAIN tn
       THEN [ users |-> us1, usage_log |-> log, stats |-> st,
              result |-> "KeyError", logged |-> None ]
       ELSE LET tenant == tn[c.tenant_id]
                log1 == IF c.resource_id # None
                        THEN log_usage(log, c.resource_id, now)
                        ELSE log
                cost == event_cost(c.cost, c.resource_id, log1)
                u1 == add_event(us1[c.user_id], c.event_type, c.resource_id,
                                cost, c.value, now)
                u2 == calculate_scores(u1, tenant, now)
                d == make_decision(u2, tenant, log1)
                u3 == [ u2 EXCEPT !.current_decision = d.decision,
                                  !.reasons = d.reasons ]
            IN [ users |-> [ us1 EXCEPT ![c.user_id] = u3 ],
                 usage_log |-> log1,
                 stats |-> update_stats(st, d.decision, cost, c.value),
                 result |-> d.decision, logged |-> c.resource_id ]

\* the calls a caller can make: cost and value are the random draws of the call
CostsOf(event_type) == IF event_type = "API_CALL" THEN ApiCostDraws ELSE {OtherCost}
ValuesOf(event_type) ==
    IF event_type = "CHECKOUT_ATTEMPT" THEN CheckoutValueDraws ELSE {OtherValue}

Call(tenant_id, user_id, event_type, resource_id, user_type, cost, value) ==
    [ tenant_id |-> tenant_id, user_id |-> user_id, event_type |-> event_type,
      resource_id |-> resource_id, user_type |-> user_type,
      cost |-> cost, value |-> value ]

\* what `last` holds: the call, when it was made, the resource it logged and
\* its result
NoCall == [ op |-> "none", tenant_id |-> None, user_id |-> None,
            logged |-> None, at |-> 0, result |-> None ]

CallRecord(c, now, out) ==
    [ op |-> "process_event", tenant_id |-> c.tenant_id, user_id |-> c.user_id,
      logged |-> out.logged, at |-> now, result |-> out.result ]

----------------------------------------------------------------------------
(* TrialGuardEngine.__init__ and the states the runs start from *)

NoUsers == [ u \in {} |-> {} ]
NoThreads == [ t \in {} |-> {} ]

Constructed ==
    [ users |-> NoUsers,
      tenants |-> [ t \in RegisteredTenants |-> TenantConfig(t) ],
      usage_log |-> [ r \in Resources |-> <<>> ],
      stats |-> [ total_events |-> 0, blocked_events |-> 0,
                  revenue_saved |-> 0, cost_saved |-> 0 ],
      clock |-> 0,
      last |-> NoCall ]

\* one call of process_event made when the clock reads `at`
After(s, c, at) ==
    LET out == process_event(s.users, s.tenants, s.usage_log, s.stats, at, c)
    IN [ users |-> out.users, tenants |-> s.tenants, usage_log |-> out.usage_log,
         stats |-> out.stats, clock |-> at, last |-> CallRecord(c, at, out) ]

\* the calls script[lo], ..., script[hi] made in this order, one after the other
\* has returned; the range is halved to keep the evaluation shallow
RECURSIVE AfterAll(_, _, _, _)
AfterAll(s, script, lo, hi) ==
    IF lo > hi THEN s
    ELSE IF lo = hi THEN After(s, script[lo].call, script[lo].at)
    ELSE LET mid == (lo + hi) \div 2
             s1 == AfterAll(s, script, lo, mid)
         IN IF s1.last.at = script[mid].at
            THEN AfterAll(s1, script, mid + 1, hi)
            ELSE s1

Repeat(n, c, at) == [ i \in 1..n |-> [ call |-> c, at |-> at ] ]

ApiCall(user_id, cost) ==
    Call("Tenant_A", user_id, "API_CALL", "R1", "ABUSIVE", cost, OtherValue)
Checkout(user_id) ==
    Call("Tenant_B", user_id, "CHECKOUT_ATTEMPT", None, "NORMAL", OtherCost, 200)
Login(user_id) ==
    Call("Tenant_B", user_id, "LOGIN", None, "NORMAL", OtherCost, OtherValue)

\* The runs start from the constructed engine, or from the state that a burst of
\* traffic, replayed call by call through process_event, leaves behind.
\* a user who checks out repeatedly, the last time a minute later
Shopper ==
    Repeat(4, Checkout("u2"), 0) \o Repeat(1, Login("u2"), 0)
        \o Repeat(1, Checkout("u2"), 0) \o Repeat(1, Checkout("u2"), 60)

\* a call under a tenant that is not registered
Unknown(user_id) ==
    Call("Tenant_X", user_id, "LOGIN", None, "NORMAL", OtherCost, OtherValue)

\* such a call, and a user who comes back after half a minute and again after
\* more than 300 seconds
Returning ==
    Repeat(1, Unknown("u2"), 0)
        \o Repeat(1, Login("u1"), 0) \o Repeat(1, Login("u1"), 30)
        \o Repeat(1, Login("u1"), SessionGap + 60)

Scripts ==
    { <<>>,
      Returning,
      \* the call under the unregistered tenant is made late
      Repeat(1, Unknown("u2"), SessionGap + 60),
      \* estimated_cost reaches max_cost_per_session exactly
      Repeat(TenantConfig("Tenant_A").max_cost_per_session \div 50, ApiCall("u1", 50), 0),
      \* the load of R1 reaches the doubling threshold exactly
      Repeat(HighLoad, ApiCall("u1", 10), 0),
      \* ... and a second user has made four calls on the hot resource
      Repeat(HighLoad, ApiCall("u1", 10), 0) \o Repeat(RepeatWindow - 1, ApiCall("u2", 50), 0),
      \* the shopper, and then the load of R1 reaches the overload threshold exactly
      Shopper \o Repeat(OverloadLoad, ApiCall("u1", 10), 60) }

Init ==
    \E script \in Scripts :
        LET s == AfterAll(Constructed, script, 1, Len(script))
        IN /\ users = s.users
           /\ tenants = s.tenants
           /\ usage_log = s.usage_log
           /\ stats = s.stats
           /\ clock = s.clock
           /\ last = s.last
           /\ steps = 0
           /\ threads = NoThreads

----------------------------------------------------------------------------
(* The steps *)

\* a caller (run_simulation) calls engine.process_event
ProcessEvent ==
    /\ steps < MaxSteps
    /\ \E tenant_id \in TenantIds, user_id \in UserIds, event_type \in EventTypes,
          resource_id \in Resources \cup {None}, user_type \in UserTypes :
        \E cost \in CostsOf(event_type), value \in ValuesOf(event_type) :
            LET c == Call(tenant_id, user_id, event_type, resource_id, user_type, cost, value)
                out == process_event(users, tenants, usage_log, stats, clock, c)
            IN /\ users' = out.users
               /\ usage_log' = out.usage_log
               /\ stats' = out.stats
               /\ last' = CallRecord(c, clock, out)
    /\ steps' = steps + 1
    /\ UNCHANGED <<tenants, clock, threads>>

\* render_configuration: the form is submitted
SaveConfiguration ==
    /\ steps < MaxSteps
    /\ \E selected_tenant \in DOMAIN tenants, form \in Forms :
        /\ tenants' = [ tenants EXCEPT ![selected_tenant] =
                          [ @ EXCEPT !.max_api_rate = form.new_rate,
                                     !.abuse_threshold = form.new_abuse,
                                     !.weight_abuse = form.new_w_abuse,
                                     !.weight_cost = form.new_w_cost ] ]
        /\ last' = [ NoCall EXCEPT !.op = "save_configuration",
                                   !.tenant_id = selected_tenant, !.at = clock ]
    /\ steps' = steps + 1
    /\ UNCHANGED <<users, usage_log, stats, clock, threads>>

\* time passes, or the wall clock is set back
Tick ==
    /\ steps < MaxSteps
    /\ \E t \in Times \ {clock} : clock' = t
    /\ steps' = steps + 1
    /\ UNCHANGED <<users, tenants, usage_log, stats, last, threads>>

Next == ProcessEvent \/ SaveConfiguration \/ Tick

Spec == Init /\ [][Next]_vars
----------------------------------------------------------------------------
(* The scoring and the decision as functions of their arguments:           *)
(* _calculate_scores(user, tenant) and _make_decision(user, tenant) applied *)
(* to profiles, policies and loads drawn from bounded sets.                 *)

\* a profile after n events at time 0, the first of the given cost and value
RECURSIVE Profile(_, _, _, _)
Profile(n, resource_id, cost, value) ==
    IF n = 0 THEN TrialUser("Tenant_A", "u1", "NORMAL", 0)
    ELSE add_event(Profile(n - 1, resource_id, cost, value), "API_CALL", resource_id,
                   IF n = 1 THEN cost ELSE 0, IF n = 1 THEN value ELSE 0, 0)

EventCounts == {1, 5, 6}
\* <<cost, value>>: 2.00 and 20.00; a cost above max_cost_per_session; net values
\* at and just above 10.00
CostValues == { <<200, 2000>>, <<1001, 0>>, <<0, 1000>>, <<0, 1001>> }
\* stored abuse scores: 0.0, 0.1, 0.2, 0.7 and 1.0
AbuseInputs == {0, 1, 2, 7, 10}
ThresholdInputs == {1, 7, 10}
LoadInputs == {OverloadLoad, OverloadLoad + 1}

InitFn ==
    \E n \in EventCounts, resource_id \in Resources \cup {None}, cv \in CostValues,
       abuse \in AbuseInputs, threshold \in ThresholdInputs, load \in LoadInputs :
        LET p == Profile(n, resource_id, cv[1], cv[2])
        IN /\ users = ("u1" :> [ p EXCEPT !.abuse_score = abuse,
                                           !.roi_score = roi_of(p, abuse) ])
           /\ tenants = [ Constructed.tenants EXCEPT
                            !["Tenant_A"].abuse_threshold = threshold ]
           /\ usage_log = [ r \in Resources |-> [ i \in 1..load |-> 0 ] ]
           /\ stats = Constructed.stats
           /\ clock = 0
           /\ last = NoCall
           /\ steps = 0
           /\ threads = NoThreads

\* self._calculate_scores(user, tenant)
Calculate ==
    /\ steps < MaxSteps
    /\ \E user_id \in DOMAIN users, tenant_id \in DOMAIN tenants :
        /\ users' = [ users EXCEPT ![user_id] =
                        calculate_scores(@, tenants[tenant_id], clock) ]
        /\ last' = [ NoCall EXCEPT !.op = "calculate_scores", !.tenant_id = tenant_id,
                                   !.user_id = user_id, !.at = clock ]
    /\ steps' = steps + 1
    /\ UNCHANGED <<tenants, usage_log, stats, clock, threads>>

\* decision, reasons = self._make_decision(user, tenant), stored on the user
Decide ==
    /\ steps < MaxSteps
    /\ \E user_id \in DOMAIN users, tenant_id \in DOMAIN tenants :
        LET d == make_decision(users[user_id], tenants[tenant_id], usage_log)
        IN /\ users' = [ users EXCEPT ![user_id] =
                           [ @ EXCEPT !.current_decision = d.decision,
                                      !.reasons = d.reasons ] ]
           /\ last' = [ NoCall EXCEPT !.op = "make_decision", !.tenant_id = tenant_id,
                                      !.user_id = user_id, !.at = clock,
                                      !.result = d.decision ]
    /\ steps' = steps + 1
    /\ UNCHANGED <<tenants, usage_log, stats, clock, threads>>

NextFn == Calculate \/ Decide \/ Tick

SpecFn == InitFn /\ [][NextFn]_vars
----------------------------------------------------------------------------
(* process_event called from several threads.  Steps 1 to 4 of a call (the  *)
(* profile, the usage log, the scores, the decision) are taken as one step; *)
(* step 5 updates st.session_state.stats with "+=", which the interpreter   *)
(* runs as a load of the entry, an addition and a store of the entry, and a *)
(* thread switch can fall between the load and the store.                   *)

Threads == 1..NumThreads

\* a user over the abuse threshold and a shopper
Busy == Shopper \o Repeat(RepeatWindow + 1, ApiCall("u1", 50), 60)

Started == AfterAll(Constructed, Busy, 1, Len(Busy))

ThreadCalls == { ApiCall("u1", 50), Checkout("u2"), Login("u1") }

InitThreads ==
    /\ users = Started.users
    /\ tenants = Started.tenants
    /\ usage_log = Started.usage_log
    /\ stats = Started.stats
    /\ clock = Started.clock
    /\ last = Started.last
    /\ steps = 0
    /\ threads \in [ Threads -> { [ pc |-> "enter", call |-> c, decision |-> None,
                                    cost |-> 0, value |-> 0, loaded |-> 0 ] :
                                  c \in ThreadCalls } ]

\* lines 128-154 of the call of thread t
Enter ==
    \E t \in DOMAIN threads :
        /\ threads[t].pc = "enter"
        /\ LET c == threads[t].call
               out == process_event(users, tenants, usage_log, stats, clock, c)
           IN /\ users' = out.users
              /\ usage_log' = out.usage_log
              /\ threads' = [ threads EXCEPT ![t] =
                                [ @ EXCEPT !.pc = "load_total",
                                           !.decision = out.result,
                                           !.cost = event_cost(c.cost, c.resource_id,
                                                               out.usage_log),
                                           !.value = c.value ] ]
        /\ UNCHANGED <<tenants, stats, clock, last, steps>>

\* thread t at position `at`: the load of stats[key] that "stats[key] += .."
\* starts with
load_stat(ths, t, key, then) ==
    [ ths EXCEPT ![t] = [ @ EXCEPT !.loaded = stats[key], !.pc = then ] ]

\* the store that "stats[key] += amount" ends with
store_stat(st, key, loaded, amount) == [ st EXCEPT ![key] = loaded + amount ]

goto(ths, t, then) == [ ths EXCEPT ![t] = [ @ EXCEPT !.pc = then ] ]

\* st.session_state.stats["total_events"] += 1
LoadTotal ==
    \E t \in DOMAIN threads :
        /\ threads[t].pc = "load_total"
        /\ threads' = load_stat(threads, t, "total_events", "store_total")
        /\ UNCHANGED <<users, tenants, usage_log, stats, clock, last, steps>>

\* ... and the branch on the decision that follows it
StoreTotal ==
    \E t \in DOMAIN threads :
        /\ threads[t].pc = "store_total"
        /\ stats' = store_stat(stats, "total_events", threads[t].loaded, 1)
        /\ threads' = goto(threads, t,
                           IF threads[t].decision = DECISION_BLOCK THEN "load_blocked"
                           ELSE IF threads[t].decision = DECISION_FLAG_SALES
                                THEN "load_revenue"
                                ELSE "done")
        /\ UNCHANGED <<users, tenants, usage_log, clock, last, steps>>

\* st.session_state.stats["blocked_events"] += 1
LoadBlocked ==
    \E t \in DOMAIN threads :
        /\ threads[t].pc = "load_blocked"
        /\ threads' = load_stat(threads, t, "blocked_events", "store_blocked")
        /\ UNCHANGED <<users, tenants, usage_log, stats, clock, last, steps>>

StoreBlocked ==
    \E t \in DOMAIN threads :
        /\ threads[t].pc = "store_blocked"
        /\ stats' = store_stat(stats, "blocked_events", threads[t].loaded, 1)
        /\ threads' = goto(threads, t, "load_cost_saved")
        /\ UNCHANGED <<users, tenants, usage_log, clock, last, steps>>

\* st.session_state.stats["cost_saved"] += cost
LoadCostSaved ==
    \E t \in DOMAIN threads :
        /\ threads[t].pc = "load_cost_saved"
        /\ threads' = load_stat(threads, t, "cost_saved", "store_cost_saved")
        /\ UNCHANGED <<users, tenants, usage_log, stats, clock, last, steps>>

StoreCostSaved ==
    \E t \in DOMAIN threads :
        /\ threads[t].pc = "store_cost_saved"
        /\ stats' = store_stat(stats, "cost_saved", threads[t].loaded, threads[t].cost)
        /\ threads' = goto(threads, t, "done")
        /\ UNCHANGED <<users, tenants, usage_log, clock, last, steps>>

\* st.session_state.stats["revenue_saved"] += (value * 0.1)
LoadRevenue ==
    \E t \in DOMAIN threads :
        /\ threads[t].pc = "load_revenue"
        /\ threads' = load_stat(threads, t, "revenue_saved", "store_revenue")
        /\ UNCHANGED <<users, tenants, usage_log, stats, clock, last, steps>>

StoreRevenue ==
    \E t \in DOMAIN threads :
        /\ threads[t].pc = "store_revenue"
        /\ stats' = store_stat(stats, "revenue_saved", threads[t].loaded, threads[t].value)
        /\ threads' = goto(threads, t, "done")
        /\ UNCHANGED <<users, tenants, usage_log, clock, last, steps>>

NextThreads ==
    \/ Enter
    \/ LoadTotal \/ StoreTotal
    \/ LoadBlocked \/ StoreBlocked
    \/ LoadCostSaved \/ StoreCostSaved
    \/ LoadRevenue \/ StoreRevenue

SpecThreads == InitThreads /\ [][NextThreads]_vars
----------------------------------------------------------------------------
(* Properties *)

\* the most recent step was a process_event call that returned a decision
LastProcessed == last.op = "process_event" /\ last.result # "KeyError"
LastUser == users[last.user_id]
LastTenant == tenants[last.tenant_id]

\* this step is a call of process_event; ... that raised KeyError
IsCall == last'.op = "process_event" /\ steps' # steps /\ clock' = clock
IsFailedCall == IsCall /\ last'.result = "KeyError"
IsProcessed == IsCall /\ last'.result # "KeyError"

TypesOf(events) == [ i \in 1..Len(events) |-> events[i].type ]
LastOf(seq, n) == SubSeq(seq, Len(seq) - Min(n, Len(seq)) + 1, Len(seq))

RECURSIVE EventsOf(_)
EventsOf(ids) ==
    IF ids = {} THEN 0
    ELSE LET u == CHOOSE x \in ids : TRUE
         IN Len(users[u].events) + EventsOf(ids \ {u})

\* C1: after any sequence of process_event calls every user's abuse_score is
\* between 0 and 1.
C1_AbuseScoreInUnitInterval ==
    \A u \in DOMAIN users :
        users[u].abuse_score >= 0 /\ users[u].abuse_score <= ScoreOne

\* C1: a call in which all three signals fired (0.4 + 0.3 + 0.4) and the score is 1.0
C1_AllSignalsClamped ==
    /\ LastProcessed
    /\ rate_exceeded(LastUser, LastTenant, last.at)
    /\ repetitive(LastUser.feature_sequence)
    /\ LastUser.estimated_cost > LastTenant.max_cost_per_session
    /\ LastUser.abuse_score = ScoreOne

\* C2: a process_event call with an unregistered tenant_id fails and creates no
\* partial state: no user is added, and the usage log and the stats are unchanged.
C2_UnknownTenantLeavesNoState ==
    [][ IsFailedCall =>
          /\ DOMAIN users' = DOMAIN users
          /\ usage_log' = usage_log
          /\ stats' = stats ]_vars

\* C3: whenever the user's abuse_score >= the tenant's abuse_threshold, the
\* decision is BLOCK, or THROTTLE with the reason "High Volume but High Value";
\* never FLAG_SALES or ALLOW.
C3_AbuseGateWins ==
    last.op = "make_decision" =>
        ( LastUser.abuse_score >= LastTenant.abuse_threshold =>
            \/ LastUser.current_decision = DECISION_BLOCK
            \/ /\ LastUser.current_decision = DECISION_THROTTLE
               /\ LastUser.reasons = << <<"High Volume but High Value">> >> )

\* C3: a decision for a user who meets both the abuse gate and the sales condition
C3_GateAndSalesBothMet ==
    /\ last.op = "make_decision"
    /\ LastUser.abuse_score >= LastTenant.abuse_threshold
    /\ LastUser.roi_score > SalesRoi
    /\ LastUser.abuse_score < SalesAbuse
    /\ LastUser.current_decision = DECISION_THROTTLE

\* C4 (as claimed): the scores a second _calculate_scores call would give, at any
\* later time and with no event or policy change between, are the stored ones.
C4_ScoresIndependentOfTime ==
    last.op = "calculate_scores" =>
        LET again == calculate_scores(LastUser, LastTenant, clock)
        IN /\ again.abuse_score = LastUser.abuse_score
           /\ again.roi_score = LastUser.roi_score

\* C4 (amended): a second _calculate_scores call gives the stored scores when it
\* is made at the same clock reading, or at one for which the rate signal
\* api_count / max(minutes since created_at, 0.1) > max_api_rate is the same.
C4_ScoresRepeatAtSameRate ==
    last.op = "calculate_scores" =>
        ( ( \/ clock = last.at
            \/ (LastUser.api_count * 60
                  > LastTenant.max_api_rate * Max(clock - LastUser.created_at, MinDurationSecs))
               = (LastUser.api_count * 60
                  > LastTenant.max_api_rate * Max(last.at - LastUser.created_at, MinDurationSecs)) )
          => LET again == calculate_scores(LastUser, LastTenant, clock)
             IN /\ again.abuse_score = LastUser.abuse_score
                /\ again.roi_score = LastUser.roi_score )

\* C4: time has passed since a calculation that stored a positive score
C4_RecalculatedLater ==
    /\ last.op = "calculate_scores"
    /\ clock # last.at
    /\ LastUser.abuse_score > 0
    /\ calculate_scores(LastUser, LastTenant, clock).abuse_score = LastUser.abuse_score

\* the user of the last call has sent 5 API_CALL events in a row, on one resource
\* whose load is above 50, within one minute, under the default tenant policy
FiveIdenticalCalls ==
    /\ LastProcessed
    /\ LastTenant = TenantConfig(last.tenant_id)
    /\ Len(LastUser.events) >= RepeatWindow
    /\ LET recent == LastOf(LastUser.events, RepeatWindow)
       IN /\ \A i \in 1..RepeatWindow :
                /\ recent[i].type = "API_CALL"
                /\ recent[i].resource = recent[1].resource
          /\ recent[1].resource # None
          /\ recent[RepeatWindow].timestamp - recent[1].timestamp < 60
          /\ recent[RepeatWindow].timestamp >= recent[1].timestamp
          /\ get_load(usage_log, recent[1].resource) > HighLoad

\* C5 (as claimed): such a user ends with decision BLOCK.
C5_FiveIdenticalCallsBlocked ==
    FiveIdenticalCalls => LastUser.current_decision = DECISION_BLOCK

\* C5 (amended): such a user ends with abuse_score >= 0.3, and with decision BLOCK
\* exactly when abuse_score >= 0.7 and roi_score <= 5.0; a user with 5 events in
\* all ends with abuse_score 0.3 and is not blocked.
C5_FiveIdenticalCallsScored ==
    FiveIdenticalCalls =>
        /\ LastUser.abuse_score >= RepeatWeight
        /\ (LastUser.current_decision = DECISION_BLOCK)
             <=> (LastUser.abuse_score >= LastTenant.abuse_threshold
                  /\ LastUser.roi_score <= ThrottleRoi)
        /\ LastUser.api_count = RepeatWindow =>
             /\ LastUser.abuse_score = RepeatWeight
             /\ LastUser.current_decision # DECISION_BLOCK

\* C5: a user's fifth event is such a call
C5_FifthIdenticalCall ==
    FiveIdenticalCalls /\ LastUser.api_count = RepeatWindow

\* C6: feature_sequence holds at most 10 entries, the types of the user's most
\* recent events in arrival order.
C6_RecentTypesInOrder ==
    \A u \in DOMAIN users :
        /\ Len(users[u].feature_sequence) <= SequenceCap
        /\ users[u].feature_sequence = LastOf(TypesOf(users[u].events), SequenceCap)

\* C6: a user with more than 10 events whose recent types differ
C6_EvictedWithMixedTypes ==
    \E u \in DOMAIN users :
        /\ Len(users[u].events) > SequenceCap
        /\ users[u].feature_sequence[SequenceCap] # users[u].feature_sequence[1]

\* C7: right after a call logged a resource, the load of that resource counts no
\* timestamp more than 60 seconds older than the call.
C7_LoadWithinWindow ==
    (last.op = "process_event" /\ last.logged # None) =>
        \A i \in 1..get_load(usage_log, last.logged) :
            last.at - usage_log[last.logged][i] <= UsageWindow

\* C7: a call logged a resource that some user accessed more than 60 seconds before
C7_OldAccessDropped ==
    /\ last.op = "process_event"
    /\ last.logged # None
    /\ \E u \in DOMAIN users :
         \E i \in 1..Len(users[u].events) :
            /\ users[u].events[i].resource = last.logged
            /\ last.at - users[u].events[i].timestamp > UsageWindow

\* C8: total_events is the number of events processed and blocked_events counts
\* the BLOCK decisions; cost_saved changes only on BLOCK, revenue_saved only on
\* FLAG_SALES; an ALLOW or THROTTLE changes only total_events.
C8_StatsFollowDecisions ==
    /\ [](/\ stats.total_events = EventsOf(DOMAIN users)
          /\ stats.blocked_events <= stats.total_events)
    /\ [][ /\ stats'.total_events = stats.total_events + (IF IsProcessed THEN 1 ELSE 0)
           /\ stats'.blocked_events = stats.blocked_events
                + (IF IsProcessed /\ last'.result = DECISION_BLOCK THEN 1 ELSE 0)
           /\ stats'.cost_saved # stats.cost_saved
                => IsProcessed /\ last'.result = DECISION_BLOCK
           /\ stats'.revenue_saved # stats.revenue_saved
                => IsProcessed /\ last'.result = DECISION_FLAG_SALES
           /\ (IsProcessed /\ last'.result \in {DECISION_ALLOW, DECISION_THROTTLE})
                => stats' = [ stats EXCEPT !.total_events = @ + 1 ] ]_vars

\* C8: a THROTTLE decision after events were blocked and flagged for sales
C8_ThrottledAfterBlockAndSales ==
    /\ LastProcessed
    /\ last.result = DECISION_THROTTLE
    /\ stats.blocked_events > 0
    /\ stats.revenue_saved > 0

\* the user's latest event names a resource whose load is above 100
LatestResourceOverloaded(user) ==
    /\ user.events # <<>>
    /\ user.events[Len(user.events)].resource # None
    /\ Len(usage_log[user.events[Len(user.events)].resource]) > OverloadLoad

\* C9: when the abuse gate does not match and the latest event's resource is
\* loaded above 100, the decision is THROTTLE with the reason
\* "Resource {id} Overloaded", also when the sales condition holds.
C9_DrainBeforeSales ==
    last.op = "make_decision" =>
        ( ( /\ LastUser.abuse_score < LastTenant.abuse_threshold
            /\ LatestResourceOverloaded(LastUser) )
          => /\ LastUser.current_decision = DECISION_THROTTLE
             /\ LastUser.reasons =
                  << <<"Resource {} Overloaded",
                       LastUser.events[Len(LastUser.events)].resource>> >> )

\* C9: such a decision for a user who also meets the sales condition
C9_DrainedSalesCandidate ==
    /\ last.op = "make_decision"
    /\ LastUser.abuse_score < LastTenant.abuse_threshold
    /\ LatestResourceOverloaded(LastUser)
    /\ LastUser.roi_score > SalesRoi
    /\ LastUser.abuse_score < SalesAbuse
    /\ LastUser.current_decision = DECISION_THROTTLE

\* C10 (as claimed): a user with roi_score > 10 and abuse_score < 0.2 is decided
\* FLAG_SALES with reasons ["High ROI User"].
C10_HighRoiFlagged ==
    LastProcessed =>
        ( (LastUser.roi_score > SalesRoi /\ LastUser.abuse_score < SalesAbuse)
          => /\ LastUser.current_decision = DECISION_FLAG_SALES
             /\ LastUser.reasons = << <<"High ROI User">> >> )

\* C10 (amended): ... provided the abuse gate does not match and the user's latest
\* event does not name a resource loaded above 100.
C10_HighRoiFlaggedUnlessGated ==
    LastProcessed =>
        ( ( /\ LastUser.roi_score > SalesRoi
            /\ LastUser.abuse_score < SalesAbuse
            /\ LastUser.abuse_score < LastTenant.abuse_threshold
            /\ ~LatestResourceOverloaded(LastUser) )
          => /\ LastUser.current_decision = DECISION_FLAG_SALES
             /\ LastUser.reasons = << <<"High ROI User">> >> )

\* C10: a call that ended in FLAG_SALES
C10_FlaggedForSales ==
    /\ LastProcessed
    /\ LastUser.roi_score > SalesRoi
    /\ LastUser.abuse_score < SalesAbuse
    /\ LastUser.current_decision = DECISION_FLAG_SALES

----------------------------------------------------------------------------
\* C11: no entry of a user's session_durations ever decreases or becomes
\* negative: an event processed at a time earlier than the user's last_active
\* adds a gap of zero.
C11_SessionEntriesNeverDecrease ==
    [][ \A u \in DOMAIN users \cap DOMAIN users' :
          LET before == users[u].session_durations
              after == users'[u].session_durations
          IN /\ \A i \in 1..Len(after) : after[i] >= 0
             /\ \A i \in 1..Len(before) : i <= Len(after) /\ after[i] >= before[i] ]_vars

\* C12: after the first event of a user, the user's session_durations is empty
\* or holds the single entry 0; it holds no negative duration.
C12_FirstEventSessions ==
    \A u \in DOMAIN users :
        Len(users[u].events) = 1 =>
            users[u].session_durations \in { <<>>, <<0>> }

\* the first event came more than 300 seconds after the profile was created
C12_FirstEventAfterGap ==
    \E u \in DOMAIN users :
        /\ Len(users[u].events) = 1
        /\ users[u].events[1].timestamp - users[u].created_at > SessionGap
        /\ users[u].session_durations = <<0>>

\* C13: the user_type of a profile is fixed by the call that creates it: no
\* later step, whatever user_type_simulation a call passes, changes it, and
\* no profile is removed.
C13_UserTypeFixed ==
    [][ \A u \in DOMAIN users :
          /\ u \in DOMAIN users'
          /\ users'[u].user_type = users[u].user_type ]_vars

\* a call for a user who had events already was processed; the calls pass
\* either hint
C13_LaterCallProcessed ==
    /\ LastProcessed
    /\ steps > 0
    /\ Len(LastUser.events) >= 2
    /\ LastUser.user_type = "ABUSIVE"
    /\ \E u \in DOMAIN users : users[u].user_type = "NORMAL" /\ Len(users[u].events) >= 2

\* C14: when the process_event calls of all threads have completed,
\* total_events has grown by the number of calls and blocked_events by the
\* number of BLOCK decisions: no update is lost.
C14_NoLostUpdate ==
    (threads # NoThreads /\ \A t \in DOMAIN threads : threads[t].pc = "done") =>
        /\ stats.total_events =
              Started.stats.total_events + Cardinality(DOMAIN threads)
        /\ stats.blocked_events =
              Started.stats.blocked_events
                + Cardinality({ t \in DOMAIN threads :
                                  threads[t].decision = DECISION_BLOCK })

\* C15: process_event derives the cost of the event, the doubling test "load
\* above 50" included, before it logs the access: the cost charged is doubled
\* exactly when the load of the resource before the call is above 50, so the
\* access that raises the load from 50 to 51 is charged the plain cost.
C15_CostBeforeLog ==
    [][ (IsProcessed /\ last'.logged # None) =>
          LET u == last'.user_id
              before == IF u \in DOMAIN users THEN users[u].estimated_cost ELSE 0
              charged == users'[u].estimated_cost - before
              type == users'[u].events[Len(users'[u].events)].type
          IN charged \in (IF get_load(usage_log, last'.logged) > HighLoad
                          THEN { 2 * c : c \in CostsOf(type) }
                          ELSE CostsOf(type)) ]_vars

\* C16: after every processed call the user's abuse_score is
\* min(1.0, 0.4 [rate] + 0.3 [last five types identical, at least five]
\* + 0.4 [estimated_cost > max_cost_per_session]) on the state the call
\* leaves, whatever score was stored before: nothing is accumulated.
C16_ScoreFromCurrentState ==
    LastProcessed =>
        LET user == LastUser
            seq == user.feature_sequence
            rate == user.api_count * 60
                      > LastTenant.max_api_rate * Max(last.at - user.created_at, 6)
            same == /\ Len(seq) >= 5
                    /\ \A i \in (Len(seq) - 4)..Len(seq) : seq[i] = seq[Len(seq)]
            costly == user.estimated_cost > LastTenant.max_cost_per_session
        IN user.abuse_score =
              Min(10, (IF rate THEN 4 ELSE 0) + (IF same THEN 3 ELSE 0)
                        + (IF costly THEN 4 ELSE 0))

\* the score went down: the user's first five events were identical, which
\* scored at least 0.3 then, and the call just processed left a score of 0
C16_ScoreWentDown ==
    /\ LastProcessed
    /\ steps > 0
    /\ Len(LastUser.events) > RepeatWindow
    /\ \A i \in 1..RepeatWindow : LastUser.events[i].type = LastUser.events[1].type
    /\ LastUser.abuse_score = 0

\* the time between event i of the user and the user's activity before it
\* (the event before, or the creation of the profile)
GapBefore(user, i) ==
    user.events[i].timestamp
      - (IF i = 1 THEN user.created_at ELSE user.events[i - 1].timestamp)

\* C17: the number of entries of a user's session_durations is the number of
\* the user's events that came more than 300 seconds after the user's previous
\* activity; the list is empty until the first such gap.
C17_OneEntryPerLongGap ==
    \A u \in DOMAIN users :
        Len(users[u].session_durations) =
            Cardinality({ i \in 1..Len(users[u].events) :
                            GapBefore(users[u], i) > SessionGap })

\* a user who saw time pass between events without an entry, and then came
\* back after a long gap
C17_LongGapAmongEvents ==
    \E u \in DOMAIN users :
        /\ Len(users[u].session_durations) = 1
        /\ \E i, j \in 1..Len(users[u].events) :
              /\ i < j
              /\ GapBefore(users[u], i) > 0
              /\ GapBefore(users[u], i) <= SessionGap
              /\ GapBefore(users[u], j) > SessionGap

\* C18: profiles are keyed by user_id alone: one profile per user_id, whose
\* tenant_id is and stays the tenant of the user's first event; an event for the
\* user under another registered tenant is added to the same profile and is
\* scored and decided with the policy of the tenant named in the call.
C18_OneProfilePerUser ==
    [][ /\ \A u \in DOMAIN users' : users'[u].user_id = u
        /\ \A u \in DOMAIN users :
              users[u].events # <<>> => users'[u].tenant_id = users[u].tenant_id
        /\ IsProcessed =>
              LET u == last'.user_id
                  had == IF u \in DOMAIN users THEN users[u].events ELSE <<>>
                  tenant == tenants[last'.tenant_id]
              IN /\ had = <<>> => users'[u].tenant_id = last'.tenant_id
                 /\ Len(users'[u].events) = Len(had) + 1
                 /\ users'[u].abuse_score =
                       clamp_score(raw_abuse_score(users'[u], tenant, clock))
                 /\ last'.result = make_decision(users'[u], tenant, usage_log').decision
                 /\ users'[u].current_decision = last'.result ]_vars

\* C19: a user whose abuse_score is 1.0 has roi_score 0, and a call that leaves
\* the score at 1.0 is decided BLOCK with the reasons ["Abuse Threshold
\* Exceeded"], for every abuse_threshold up to 1.0 and whatever the user's
\* feature_value and estimated_cost: never THROTTLE, never the "Critical Abuse
\* Score" reasons.
C19_FullScoreBlocked ==
    /\ \A u \in DOMAIN users :
          users[u].abuse_score = 10 => users[u].roi_score = 0
    /\ (LastProcessed /\ LastUser.abuse_score = 10 /\ LastTenant.abuse_threshold <= 10) =>
          /\ last.result = DECISION_BLOCK
          /\ LastUser.current_decision = DECISION_BLOCK
          /\ LastUser.reasons = << <<"Abuse Threshold Exceeded">> >>

\* a call scored 1.0 under a threshold of 1.0, by a user whose cost is more than
\* 5.00 above the value, on a resource with a load above 100
C19_FullScoreAtThresholdOne ==
    /\ LastProcessed
    /\ steps > 0
    /\ LastUser.abuse_score = 10
    /\ LastTenant.abuse_threshold = 10
    /\ LastUser.estimated_cost - LastUser.feature_value > 500
    /\ last.logged # None
    /\ get_load(usage_log, last.logged) > OverloadLoad

\* C20: once a resource has been accessed through log_usage its load is at
\* least 1 in every later state: its timestamps change only in a later
\* log_usage of the same resource, which keeps the timestamp it appends, so
\* the load does not return to 0.
C20_LoadStaysPositive ==
    /\ [](\A r \in DOMAIN usage_log :
            (\E u \in DOMAIN users : \E i \in 1..Len(users[u].events) :
                users[u].events[i].resource = r)
            => get_load(usage_log, r) >= 1)
    /\ [][ \A r \in DOMAIN usage_log :
             /\ get_load(usage_log, r) >= 1 => get_load(usage_log', r) >= 1
             /\ usage_log'[r] # usage_log[r] =>
                   /\ IsProcessed
                   /\ last'.logged = r
                   /\ usage_log'[r][Len(usage_log'[r])] = clock ]_vars

\* the load counts accesses that are all older than 60 seconds at the current
\* time
C20_LoadOfOldAccesses ==
    \E r \in DOMAIN usage_log :
        /\ get_load(usage_log, r) >= 1
        /\ \A i \in 1..Len(usage_log[r]) : clock - usage_log[r][i] > UsageWindow

====
